---- MODULE Spec2Model ----
(***************************************************************************)
(* A model of AutoBackup's Bitwarden layer (src/bitwarden_manager.py):     *)
(* the BitwardenCommander session manager (session key, sync observers,    *)
(* unlock / lock / sync / exe_bw_command) and the cacheable proxies that   *)
(* register with it.  The program is single-threaded, so every public call *)
(* is one atomic action; the external `bw` process is the only source of   *)
(* nondeterminism and its output is an input of the action.                *)
(*                                                                         *)
(* Three specifications: Spec, a caller that makes the public calls in any *)
(* order; DrvSpec, the backup driver (src/bak.py) making them in its own   *)
(* order; SbpSpec, one external process and the pipes it is read through.  *)
(***************************************************************************)
EXTENDS Integers, Sequences, FiniteSets, TLC

VARIABLES
    session_key,      \* BitwardenCommander.session_key: None or Some(line)
    sync_observers,   \* BitwardenCommander.sync_observers: set of object identities
    heap,             \* every proxy object constructed so far, by identity
    op,               \* history: the public call just made, or NoOp
    inp,              \* history: what that call read of its environment
    pre,              \* history: the commander and the heap when the call was made
    log,              \* history: calls and dispatched commands of that call, in order
    exc,              \* history: the exception the call raised, or NoExc
    ret,              \* history: the value the call returned, under the call's name
    sbp,              \* RealSubprocessCommander: the external process and its pipes
    drv               \* bak.py: the position and the locals of the driver

vars == <<session_key, sync_observers, heap, op, inp, pre, log, exc, ret, sbp, drv>>

----------------------------------------------------------------------------
(* Bounds of the model.                                                    *)

\* the largest number of proxy objects ever constructed
MaxObjects == 3

\* the blocks of output a pipe holds before a write to it blocks
PipeCapacity == 2

\* the most blocks an external process prints on one stream
MaxOutput == 4

----------------------------------------------------------------------------
(* Python values.                                                          *)

\* Python's None and a present value, as a sequence of no or one element
None == <<>>
Some(x) == <<x>>
Val(o) == o[1]

NoExc == "none"

\* str(path_to_bw_executable), str(path_to_pw_file)
BwExe == "bw"
PwFile == "pwfile"

----------------------------------------------------------------------------
(* Regular expressions of the source, on strings.                          *)

\* whether pat occurs in s at position i
OccursAt(s, pat, i) ==
    /\ i >= 1
    /\ i + Len(pat) - 1 <= Len(s)
    /\ SubSeq(s, i, i + Len(pat) - 1) = pat

\* re.match(r'.*Invalid.*password.*', line) is not None.  The pattern is
\* compiled without re.IGNORECASE: 'Invalid' and 'password' are matched as
\* written.  (A first output line holds no inner line break.)
ReMatchInvalidPassword(line) ==
    \E i \in 1..Len(line) : \E j \in 1..Len(line) :
        /\ OccursAt(line, "Invalid", i)
        /\ j >= i + Len("Invalid")
        /\ OccursAt(line, "password", j)

RECURSIVE LStrip(_)
\* the rest of s after its leading blanks (the \s* prefix of a pattern)
LStrip(s) ==
    IF Len(s) > 0 /\ SubSeq(s, 1, 1) = " " THEN LStrip(SubSeq(s, 2, Len(s))) ELSE s

\* re.match(r"\s*sync\s*", arg) is not None: a prefix match
ReMatchSync(arg) == OccursAt(LStrip(arg), "sync", 1)

----------------------------------------------------------------------------
(* The running call: the commander's fields, the heap, and the history     *)
(* of the call (its log, its call stack, a raised exception, the value     *)
(* last returned).                                                         *)

\* one entry of the log: a call of a method, or a command handed to the
\* subprocess commander, with the chain of callers and the session key at
\* that moment, and for a notification the observers notified
Event(w, ev, name, argv, obs) ==
    [ev |-> ev, name |-> name, argv |-> argv, stack |-> w.stack,
     key |-> w.session_key, obs |-> obs]

Logged(w, ev, name, argv, obs) ==
    [w EXCEPT !.log = Append(@, Event(w, ev, name, argv, obs))]

Enter(w, name) == [Logged(w, "call", name, <<>>, {}) EXCEPT !.stack = Append(@, name)]

Leave(w) == [w EXCEPT !.stack = SubSeq(@, 1, Len(@) - 1)]

Raise(w, e) == [w EXCEPT !.exc = e]

\* v named in what follows (a local variable of the source)
Bind(v, K(_)) == K(v)

\* a statement that may raise: when it did, the function is left at once
\* and the exception goes to its caller; otherwise what follows runs
Try(w, K(_)) == IF w.exc # NoExc THEN Leave(w) ELSE K(w)

\* the environment of a call: whether the password file exists, what the
\* external process prints for the unlock command, and what it prints for
\* a command whose output the caller reads (list, get)
Env(pw, uo, co) == [pw_file_exists |-> pw, unlock_output |-> uo, cmd_output |-> co]

\* the part of the environment a call has read so far: nothing yet
Unread == Env(None, None, None)

\* the commands whose output a caller parses; the output of any other
\* command (sync, lock, create attachment, get attachment, ...) is only printed
OutputIsRead(command) ==
    \/ command[2] = "list"
    \/ command[2] = "get" /\ command[3] # "attachment"
    \/ command[2] = "create" /\ command[3] = "item"

\* os.path.isfile(path_to_pw_file)
IsFile(w, e) == [w EXCEPT !.inp.pw_file_exists = Some(e.pw_file_exists),
                          !.ret = e.pw_file_exists]

\* SubprocessCommander.exe_wait_sbp_command: run the command, return its output
ExeWaitSbpCommand(w, command, e) ==
    Bind(Logged(w, "cmd", command[2], command, {}), LAMBDA w1 :
             CASE command[2] = "unlock" ->
                      [w1 EXCEPT !.inp.unlock_output = Some(e.unlock_output),
                                 !.ret = e.unlock_output]
               [] OutputIsRead(command) ->
                      [w1 EXCEPT !.inp.cmd_output = Some(e.cmd_output),
                                 !.ret = e.cmd_output]
               [] OTHER -> [w1 EXCEPT !.ret = <<"ok">>])

\* SubprocessCommander.exe_wait_sbp_command_with_piped_info
ExeWaitSbpCommandWithPipedInfo(w, command, e) ==
    [Logged(w, "cmd", command[2], command, {}) EXCEPT !.ret = "encoded"]

----------------------------------------------------------------------------
(* Proxy objects.                                                          *)

EmptyDict == [s \in {} |-> 0]

\* a proxy of the given kind as its constructor leaves it
NewObject(kind, bw_id) ==
    [kind |-> kind, bw_id |-> bw_id, info_cache |-> None,
     lookup_cache |-> EmptyDict,
     attachments_cache |-> None, attachments_have_been_downloaded |-> FALSE,
     name |-> "", item_attached_to |-> 0, input_path |-> None, output_path |-> None]

\* BitwardenObject.sync
BitwardenObjectSync(o) == [o EXCEPT !.info_cache = None]

\* BitwardenItem.sync
BitwardenItemSync(o) ==
    [BitwardenObjectSync(o) EXCEPT !.attachments_cache = None,
                                   !.attachments_have_been_downloaded = FALSE]

\* BitwardenCollection.sync and BitwardenOrganization.sync
ContainerSync(o) == [BitwardenObjectSync(o) EXCEPT !.lookup_cache = EmptyDict]

\* observer.sync() without the overrides of the subclasses
ObserverSyncBaseOnly(o) == BitwardenObjectSync(o)

\* observer.sync(), dispatched on the proxy's class
ObserverSync(o) ==
    CASE o.kind = "item" -> BitwardenItemSync(o)
      [] o.kind \in {"collection", "organization"} -> ContainerSync(o)
      [] OTHER -> BitwardenObjectSync(o)

----------------------------------------------------------------------------
(* BitwardenCommander.                                                     *)

\* BitwardenObject.__hash__
Hash(o) == o.bw_id

\* an __eq__ that holds whenever the hashes agree (it is only asked then)
EqSameHash(i, j) == TRUE

\* ==, which no class of the module defines: the identity of the objects
Eq(i, j) == i = j

\* register_sync_observer that takes objects of one hash for one object
RegisterSyncObserverByHash(w, i) ==
    IF \E j \in w.sync_observers : Hash(w.heap[j]) = Hash(w.heap[i]) THEN w
    ELSE [w EXCEPT !.sync_observers = @ \cup {i}]

\* register_sync_observer: set.add, which keeps the set as it is when it
\* holds an element of the same hash that is equal to the new one
RegisterSyncObserver(w, i) ==
    IF \E j \in w.sync_observers : Hash(w.heap[j]) = Hash(w.heap[i]) /\ Eq(j, i) THEN w
    ELSE [w EXCEPT !.sync_observers = @ \cup {i}]

RECURSIVE SyncEach(_, _)
\* one round of the loop of perform_sync_notify: observer.sync()
SyncOne(objects, observers, i) ==
    SyncEach([objects EXCEPT ![i] = ObserverSync(@)], observers \ {i})

\* the loop of perform_sync_notify over the observers (the order in which a
\* set is walked does not matter: each round writes its own object only)
SyncEach(objects, observers) ==
    IF observers = {} THEN objects
    ELSE SyncOne(objects, observers, CHOOSE i \in observers : TRUE)

\* perform_sync_notify: observer.sync() for every registered observer
PerformSyncNotify(w) ==
    [Logged(w, "call", "perform_sync_notify", <<>>, w.sync_observers)
        EXCEPT !.heap = SyncEach(w.heap, w.sync_observers)]

\* the command unlock() formats by hand, without a session flag
UnlockCommand == <<BwExe, "unlock", "--passwordfile", PwFile, "--raw">>

\* sbp_args of exe_bw_command: the arguments, then the flag and the key
SbpArgs(w, bw_args) == <<BwExe>> \o bw_args \o <<"--session">> \o w.session_key

RECURSIVE ExeBwCommand(_, _, _)
RECURSIVE Unlock(_, _)
RECURSIVE Sync(_, _)

\* sync()
Sync(w, e) == Leave(ExeBwCommand(Enter(w, "sync"), <<"sync">>, e))

\* unlock() that does not end with self.sync()
UnlockProcedureNoSync(w, e) ==
    Bind(ExeWaitSbpCommand(w, UnlockCommand, e), LAMBDA w1 :
        IF Len(w1.ret) = 0 THEN Leave(Raise(w1, "IndexError"))
        ELSE IF ReMatchInvalidPassword(w1.ret[1])
             THEN Leave(Raise(w1, "InvalidMasterPasswordError"))
        ELSE Leave([w1 EXCEPT !.session_key = Some(w1.ret[1])]))

\* unlock(), from the unlock command on
UnlockProcedure(w, e) ==
    Bind(ExeWaitSbpCommand(w, UnlockCommand, e), LAMBDA w1 :
        IF Len(w1.ret) = 0 THEN Leave(Raise(w1, "IndexError"))    \* unlock_output[0]
        ELSE IF ReMatchInvalidPassword(w1.ret[1])
             THEN Leave(Raise(w1, "InvalidMasterPasswordError"))
        ELSE Leave(Sync([w1 EXCEPT !.session_key = Some(w1.ret[1])], e)))

\* unlock() that does not look for the password file
UnlockNoFileCheck(w, e) ==
    Bind(Enter(w, "unlock"), LAMBDA w0 :
        IF w0.session_key # None THEN Leave(w0)
        ELSE UnlockProcedure(IsFile(w0, e), e))

\* unlock() that does not return early when a session key exists
UnlockNoKeyCheck(w, e) ==
    Bind(Enter(w, "unlock"), LAMBDA w0 :
        Bind(IsFile(w0, e), LAMBDA w1 :
            IF ~w1.ret THEN Leave(Raise(w1, "FileNotFoundError"))
            ELSE UnlockProcedure(w1, e)))

\* unlock()
Unlock(w, e) ==
    Bind(Enter(w, "unlock"), LAMBDA w0 :
        IF w0.session_key # None THEN Leave(w0)
        ELSE Bind(IsFile(w0, e), LAMBDA w1 :
                 IF ~w1.ret THEN Leave(Raise(w1, "FileNotFoundError"))
                 ELSE UnlockProcedure(w1, e)))

\* exe_bw_command that notifies whatever the command is
ExeBwCommandAlwaysNotify(w, bw_args, e) ==
    Bind(PerformSyncNotify(w), LAMBDA w2 :
        Leave(ExeWaitSbpCommand(w2, SbpArgs(w2, bw_args), e)))

\* exe_bw_command that notifies for no command
ExeBwCommandNeverNotify(w, bw_args, e) ==
    Leave(ExeWaitSbpCommand(w, SbpArgs(w, bw_args), e))

\* exe_bw_command(bw_args), once a session key is there
ExeBwCommandWithKey(w, bw_args, e) ==
    Bind(IF ReMatchSync(bw_args[1]) THEN PerformSyncNotify(w) ELSE w, LAMBDA w2 :
        Leave(ExeWaitSbpCommand(w2, SbpArgs(w2, bw_args), e)))

\* exe_bw_command that does not unlock first
ExeBwCommandNoUnlock(w, bw_args, e) ==
    ExeBwCommandWithKey(Enter(w, "exe_bw_command"), bw_args, e)

\* exe_bw_command that dispatches the command though unlock() failed
ExeBwCommandDespiteFailure(w, bw_args, e) ==
    Bind(Enter(w, "exe_bw_command"), LAMBDA w0 :
        Bind(IF w0.session_key = None THEN Unlock(w0, e) ELSE w0, LAMBDA w1 :
            ExeBwCommandWithKey(w1, bw_args, e)))

\* exe_bw_command(bw_args)
ExeBwCommand(w, bw_args, e) ==
    Bind(Enter(w, "exe_bw_command"), LAMBDA w0 :
        Try(IF w0.session_key = None THEN Unlock(w0, e) ELSE w0, LAMBDA w1 :
            ExeBwCommandWithKey(w1, bw_args, e)))

\* lock() that keeps the session key
LockKeepsKey(w, e) == Try(ExeBwCommand(Enter(w, "lock"), <<"lock">>, e), LAMBDA w1 : Leave(w1))

\* lock()
Lock(w, e) ==
    Try(ExeBwCommand(Enter(w, "lock"), <<"lock">>, e), LAMBDA w1 :
        Leave([w1 EXCEPT !.session_key = None]))

\* exe_bw_encode_cmd(unencoded_json)
ExeBwEncodeCmd(w, e) ==
    Leave(ExeWaitSbpCommandWithPipedInfo(Enter(w, "exe_bw_encode_cmd"),
                                         <<BwExe, "encode">>, e))

----------------------------------------------------------------------------
(* JSON texts the external tool prints, and json.loads on them.            *)

JArrayEmpty == "[]"
JArrayOne == "[{\"id\":\"id1\",\"name\":\"AUTO_BAK\"}]"
JObject == "{\"id\":\"id1\",\"name\":\"AUTO_BAK\"}"
JObjectAttach == "{\"id\":\"id1\",\"name\":\"AUTO_BAK\",\"attachments\":[{\"id\":\"a1\",\"fileName\":\"f.zip\"}]}"
JObjectNew == "{\"id\":\"id9\",\"name\":\"AUTO_BAK_NEW\"}"
NotFoundText == "Not found."

\* arrays of several results: the exact match last, two exact matches, no
\* exact match, and three results
JArrayLastExact == "[{\"id\":\"id1\",\"name\":\"AUTO_BAK_OLD\"},{\"id\":\"id2\",\"name\":\"AUTO_BAK\"}]"
JArrayTwoExact == "[{\"id\":\"id1\",\"name\":\"AUTO_BAK\"},{\"id\":\"id2\",\"name\":\"AUTO_BAK\"}]"
JArrayNoExact == "[{\"id\":\"id1\",\"name\":\"AUTO_BAK_OLD\"},{\"id\":\"id2\",\"name\":\"AUTO_BAK_NEW\"}]"
JArrayThree == "[{\"id\":\"id1\",\"name\":\"AUTO\"},{\"id\":\"id2\",\"name\":\"AUTO_BAK\"},{\"id\":\"id3\",\"name\":\"AUTO\"}]"

\* the texts json.loads accepts, among those of the model
JsonTexts == {JArrayEmpty, JArrayOne, JObject, JObjectAttach, JObjectNew,
              JArrayLastExact, JArrayTwoExact, JArrayNoExact, JArrayThree}

\* json.loads(text): an array is a sequence, an object a record
JsonLoads(text) ==
    CASE text = JArrayEmpty -> <<>>
      [] text = JArrayOne -> <<[id |-> "id1", name |-> "AUTO_BAK"]>>
      [] text = JObject -> [id |-> "id1", name |-> "AUTO_BAK"]
      [] text = JObjectNew -> [id |-> "id9", name |-> "AUTO_BAK_NEW"]
      [] text = JObjectAttach ->
             [id |-> "id1", name |-> "AUTO_BAK",
              attachments |-> <<[id |-> "a1", fileName |-> "f.zip"]>>]
      [] text = JArrayLastExact ->
             <<[id |-> "id1", name |-> "AUTO_BAK_OLD"], [id |-> "id2", name |-> "AUTO_BAK"]>>
      [] text = JArrayTwoExact ->
             <<[id |-> "id1", name |-> "AUTO_BAK"], [id |-> "id2", name |-> "AUTO_BAK"]>>
      [] text = JArrayNoExact ->
             <<[id |-> "id1", name |-> "AUTO_BAK_OLD"], [id |-> "id2", name |-> "AUTO_BAK_NEW"]>>
      [] text = JArrayThree ->
             <<[id |-> "id1", name |-> "AUTO"], [id |-> "id2", name |-> "AUTO_BAK"],
               [id |-> "id3", name |-> "AUTO"]>>

\* re.match(r"^[\[{].*", res) is not None
ReMatchJsonStart(res) == OccursAt(res, "[", 1) \/ OccursAt(res, "{", 1)

\* the loop of find_object_info that never leaves the default
PickResultFirst(res, raw_res, search_text) == res

RECURSIVE PickResult(_, _, _)
\* the loop of find_object_info over raw_res: every element whose name
\* equals search_text is assigned to res in turn
PickResult(res, raw_res, search_text) ==
    IF raw_res = <<>> THEN res
    ELSE PickResult(IF Head(raw_res).name = search_text THEN Head(raw_res) ELSE res,
                    Tail(raw_res), search_text)

\* find_object_info that returns None where it should raise
PickFromOutputNoRaise(w, res, search_text) ==
    IF ~ReMatchJsonStart(res) \/ res = JArrayEmpty THEN Leave([w EXCEPT !.ret = None])
    ELSE Leave([w EXCEPT !.ret = PickResult(JsonLoads(res)[1], JsonLoads(res), search_text)])

\* find_object_info, from the first output line on
PickFromOutput(w, res, search_text) ==
    IF ~ReMatchJsonStart(res) THEN Leave(Raise(w, "BitwardenItemNotFoundError"))
    ELSE IF res \notin JsonTexts THEN Leave(Raise(w, "JSONDecodeError"))
    ELSE Bind(JsonLoads(res), LAMBDA raw_res :
             IF OccursAt(res, "{", 1)
             THEN Leave(Raise(w, "KeyError"))    \* a non-empty object: raw_res[0]
             ELSE IF Len(raw_res) = 0
             THEN Leave(Raise(w, "BitwardenItemNotFoundError"))
             ELSE Leave([w EXCEPT !.ret = PickResult(raw_res[1], raw_res, search_text)]))

\* find_object_info(get_qry_command, search_text)
FindObjectInfo(w, get_qry_command, search_text, e) ==
    Try(ExeBwCommand(Enter(w, "find_object_info"),
                     get_qry_command \o <<"--search", search_text>>, e),
        LAMBDA w1 :
            IF Len(w1.ret) = 0 THEN Leave(Raise(w1, "IndexError"))
            ELSE PickFromOutput(w1, w1.ret[1], search_text))

----------------------------------------------------------------------------
(* The proxies' methods.  An object is named by its place in the heap.     *)

\* CacheableBitwardenObject.__init__ under BitwardenObject.__init__: the new
\* object registers itself; ret is the new object
Construct(w, o) ==
    [RegisterSyncObserver([w EXCEPT !.heap = Append(@, o)], Len(w.heap) + 1)
        EXCEPT !.ret = Len(w.heap) + 1]

SetInfoCache(w, i, info) == [w EXCEPT !.heap[i].info_cache = Some(info)]

\* found_obj = Class(bw_commander, find_info_res['id']);
\* found_obj.info_cache = find_info_res; ret is found_obj
ConstructFound(w, kind, find_info_res) ==
    Bind(Construct(w, NewObject(kind, find_info_res.id)), LAMBDA w2 :
        SetInfoCache(w2, w2.ret, find_info_res))

\* BitwardenOrganization.find_organization(bw_commander, search_text)
FindOrganization(w, search_text, e) ==
    Try(FindObjectInfo(Enter(w, "find_organization"),
                       <<"list", "organizations">>, search_text, e),
        LAMBDA w1 : Leave(ConstructFound(w1, "organization", w1.ret)))

\* BitwardenItem.find_item(bw_commander, search_text)
FindBareItem(w, search_text, e) ==
    Try(FindObjectInfo(Enter(w, "find_item"), <<"list", "items">>, search_text, e),
        LAMBDA w1 : Leave(ConstructFound(w1, "item", w1.ret)))

DictUpdate(d, k, v) == [s \in DOMAIN d \cup {k} |-> IF s = k THEN v ELSE d[s]]

\* a lookup that never consults the cache
FindChildNeverCached(w, i, method, find_info_cmd, child_kind, search_text, e) ==
    Bind(Enter(w, method), LAMBDA w0 :
        Try(FindObjectInfo(w0, find_info_cmd, search_text, e), LAMBDA w1 :
            Bind(ConstructFound(w1, child_kind, w1.ret), LAMBDA w3 :
                Leave([w3 EXCEPT !.heap[i].lookup_cache =
                                     DictUpdate(@, search_text, w3.ret)]))))

\* the body shared by BitwardenOrganization.find_collection and
\* BitwardenCollection.find_item: the lookup cache, then resolution
FindChild(w, i, method, find_info_cmd, child_kind, search_text, e) ==
    Bind(Enter(w, method), LAMBDA w0 :
        IF search_text \in DOMAIN w0.heap[i].lookup_cache
        THEN Leave([w0 EXCEPT !.ret = w0.heap[i].lookup_cache[search_text]])
        ELSE Try(FindObjectInfo(w0, find_info_cmd, search_text, e), LAMBDA w1 :
                 Bind(ConstructFound(w1, child_kind, w1.ret), LAMBDA w3 :
                     Leave([w3 EXCEPT !.heap[i].lookup_cache =
                                          DictUpdate(@, search_text, w3.ret)]))))

\* BitwardenOrganization.find_collection(search_text)
OrgFindCollection(w, i, search_text, e) ==
    FindChild(w, i, "find_collection",
              <<"list", "collections", "--organizationid", w.heap[i].bw_id>>,
              "collection", search_text, e)

\* BitwardenCollection.find_item(search_text)
CollFindItem(w, i, search_text, e) ==
    FindChild(w, i, "find_item",
              <<"list", "items", "--collectionid", w.heap[i].bw_id>>,
              "item", search_text, e)

\* get_info_from_bw of the proxy's class: `get <kind> <id>`, and
\* dict(json.loads(...[0])); an attachment has none
GetInfoFromBw(w, i, e) ==
    Bind(Enter(w, "get_info_from_bw"), LAMBDA w0 :
        IF w0.heap[i].kind = "attachment" THEN Leave(Raise(w0, "NotImplementedError"))
        ELSE Try(ExeBwCommand(w0, <<"get", w0.heap[i].kind, w0.heap[i].bw_id>>, e),
                 LAMBDA w1 :
                     IF Len(w1.ret) = 0 THEN Leave(Raise(w1, "IndexError"))
                     ELSE IF w1.ret[1] \notin JsonTexts
                          THEN Leave(Raise(w1, "JSONDecodeError"))
                     ELSE Leave([w1 EXCEPT !.ret = JsonLoads(w1.ret[1])])))

\* get_info that fetches whatever the cache holds
GetInfoAlwaysFetches(w, i, e) ==
    Bind(Enter(w, "get_info"), LAMBDA w0 :
        Try(GetInfoFromBw(w0, i, e), LAMBDA w1 :
            Leave(SetInfoCache(w1, i, w1.ret))))

\* BitwardenObject.get_info
GetInfo(w, i, e) ==
    Bind(Enter(w, "get_info"), LAMBDA w0 :
        IF w0.heap[i].info_cache # None
        THEN Leave([w0 EXCEPT !.ret = Val(w0.heap[i].info_cache)])
        ELSE Try(GetInfoFromBw(w0, i, e), LAMBDA w1 :
                 Leave(SetInfoCache(w1, i, w1.ret))))

\* BitwardenItemAttachment.__init__
NewAttachment(bw_id, name, item, path_to_input_file) ==
    [NewObject("attachment", bw_id) EXCEPT !.name = name, !.item_attached_to = item,
                                           !.input_path = path_to_input_file]

\* self.attachments_cache.append(new_obj); None has no append
AppendAttachment(w, i, new_obj) ==
    IF w.heap[i].attachments_cache = None THEN Raise(w, "AttributeError")
    ELSE [w EXCEPT !.heap[i].attachments_cache = Some(Append(Val(@), new_obj))]

\* one round of the loop of get_attachments
MakeAttachment(w, i, attachment) ==
    Bind(Construct(w, NewAttachment(attachment.id, attachment.fileName, i, None)),
         LAMBDA w1 : AppendAttachment(SetInfoCache(w1, w1.ret, attachment), i, w1.ret))

RECURSIVE MakeAttachments(_, _, _)
\* the loop of get_attachments over item_details['attachments']
MakeAttachments(w, i, entries) ==
    IF entries = <<>> \/ w.exc # NoExc THEN w
    ELSE MakeAttachments(MakeAttachment(w, i, Head(entries)), i, Tail(entries))

\* len(self.attachments_cache) after the loop; None has no len
CountAttachments(w, i) ==
    IF w.exc = NoExc /\ w.heap[i].attachments_cache = None THEN Raise(w, "TypeError")
    ELSE w

\* get_attachments, from item_details on
AttachmentsOf(w, i, item_details) ==
    Try(IF "attachments" \notin DOMAIN item_details THEN w
        ELSE CountAttachments(MakeAttachments(w, i, item_details.attachments), i),
        LAMBDA w3 :
            Bind([w3 EXCEPT !.heap[i].attachments_have_been_downloaded = TRUE],
                 LAMBDA w4 : Leave([w4 EXCEPT !.ret = w4.heap[i].attachments_cache])))

\* BitwardenItem.get_attachments
GetAttachments(w, i, e) ==
    Bind(Enter(w, "get_attachments"), LAMBDA w0 :
        IF w0.heap[i].attachments_cache # None
           /\ w0.heap[i].attachments_have_been_downloaded
        THEN Leave([w0 EXCEPT !.ret = w0.heap[i].attachments_cache])
        ELSE Try(GetInfo([w0 EXCEPT !.heap[i].attachments_cache = Some(<<>>)], i, e),
                 LAMBDA w2 : AttachmentsOf(w2, i, w2.ret)))

\* upload that tests the source path only after the command was dispatched
UploadChecksLate(w, a, e) ==
    Bind(Enter(w, "upload"), LAMBDA w0 :
        Try(ExeBwCommand(w0, <<"create", "attachment", "--file",
                               IF w0.heap[a].input_path = None THEN "None"
                               ELSE Val(w0.heap[a].input_path), "--itemid",
                               w0.heap[w0.heap[a].item_attached_to].bw_id>>, e),
            LAMBDA w1 : IF w1.heap[a].input_path = None
                        THEN Leave(Raise(w1, "ValueError")) ELSE Leave(w1)))

\* BitwardenItemAttachment.upload
Upload(w, a, e) ==
    Bind(Enter(w, "upload"), LAMBDA w0 :
        IF w0.heap[a].input_path = None THEN Leave(Raise(w0, "ValueError"))
        ELSE Leave(ExeBwCommand(w0, <<"create", "attachment", "--file",
                                      Val(w0.heap[a].input_path), "--itemid",
                                      w0.heap[w0.heap[a].item_attached_to].bw_id>>, e)))

\* create_upload_attachment, once new_obj is made: the cache, then the upload
CacheAndUpload(w, i, new_obj, e) ==
    Try(Upload(AppendAttachment(
                   IF w.heap[i].attachments_cache = None
                   THEN [w EXCEPT !.heap[i].attachments_cache = Some(<<>>)] ELSE w,
                   i, new_obj),
               new_obj, e),
        LAMBDA w4 : Leave([w4 EXCEPT !.ret = new_obj]))

\* BitwardenItem.create_upload_attachment(attach_file_input)
CreateUploadAttachment(w, i, attach_file_input, e) ==
    Bind(Construct(Enter(w, "create_upload_attachment"),
                   NewAttachment("NO_ID", attach_file_input, i, Some(attach_file_input))),
         LAMBDA w1 : CacheAndUpload(w1, i, w1.ret, e))

\* BitwardenItemAttachment.download
Download(w, a, e) ==
    Leave(ExeBwCommand(Enter(w, "download"),
                       <<"get", "attachment", w.heap[a].name, "--itemid",
                         w.heap[w.heap[a].item_attached_to].bw_id>>
                           \o (IF w.heap[a].output_path = None THEN <<>>
                               ELSE <<"--output", Val(w.heap[a].output_path)>>),
                       e))

\* BitwardenItem.delete_from_bw
DeleteFromBw(w, i, e) ==
    Leave(ExeBwCommand(Enter(w, "delete_from_bw"),
                       <<"delete", "item", w.heap[i].bw_id, "--permanent">>, e))

\* BitwardenCollection.create_note_item_for_attachment(note_name, organization_id):
\* the note goes to the tool as piped input of the encode command, and the
\* new item is made of what the create command prints
CreateNoteItemForAttachment(w, c, e) ==
    Bind(ExeBwEncodeCmd(Enter(w, "create_note_item_for_attachment"), e), LAMBDA w1 :
        Try(ExeBwCommand(w1, <<"create", "item", w1.ret>>, e), LAMBDA w2 :
            IF Len(w2.ret) = 0 THEN Leave(Raise(w2, "IndexError"))
            ELSE IF w2.ret[1] \notin JsonTexts THEN Leave(Raise(w2, "JSONDecodeError"))
            ELSE Leave(ConstructFound(w2, "item", JsonLoads(w2.ret[1])))))

----------------------------------------------------------------------------
(* Inputs.                                                                 *)

\* what `bw unlock --raw` may print: a session key, the error line in the
\* tool's casing and in lower case, or nothing
UnlockOutputs ==
    { <<"key1">>,
      <<"Invalid master password.">>,
      <<"invalid master password.">>,
      <<>> }

\* argument vectors handed to exe_bw_command directly
BwArgs == { <<"test_cmd">>, <<"sync">>, <<" sync">>, <<"lock">> }

\* the environments of a call whose own command prints one of outs
\* (a call made with a key present reads neither the password file nor an
\* unlock output: one of each stands for all)
EnvsOf(outs) ==
    IF session_key = None
    THEN { Env(pw, uo, co) : pw \in BOOLEAN, uo \in UnlockOutputs, co \in outs }
    ELSE { Env(TRUE, <<"key1">>, co) : co \in outs }

\* the environments of a call that reads no output but that of unlock
Envs == EnvsOf({ <<>> })

\* what a `list ... --search` command may print
ListOutputs == { <<NotFoundText>>, <<JArrayEmpty>>, <<JArrayOne>> }

\* what the command of find_object_info may print
FindOutputs ==
    ListOutputs \cup { <<JArrayLastExact>>, <<JArrayTwoExact>>, <<JArrayNoExact>>,
                       <<JArrayThree>>, <<>> }

\* what a `get <kind> <id>` command may print
GetOutputs == { <<NotFoundText>>, <<JObject>>, <<JObjectAttach>> }

\* what a `create item` command may print
CreateOutputs == { <<NotFoundText>>, <<JObjectNew>>, <<>> }

SearchTexts == { "AUTO_BAK", "AUTO" }

InputPaths == { "bak.zip" }

----------------------------------------------------------------------------
(* The state machine.                                                      *)

\* the commander and the heap, as a call finds them
Now == [session_key |-> session_key, sync_observers |-> sync_observers, heap |-> heap]

\* the running call at its start
Start == [session_key |-> session_key, sync_observers |-> sync_observers,
          heap |-> heap, log |-> <<>>, stack |-> <<>>, exc |-> NoExc, ret |-> <<>>,
          inp |-> Unread]

Op(name, args) == [name |-> name, args |-> args]

\* no call is under way or just made
NoOp == Op("none", <<>>)

\* what the call that ended as w leaves: the program's state, and the
\* history of the call
Effect(w, o) ==
    /\ session_key' = w.session_key
    /\ sync_observers' = w.sync_observers
    /\ heap' = w.heap
    /\ op' = o
    /\ inp' = w.inp
    /\ pre' = Now
    /\ log' = w.log
    /\ exc' = w.exc
    /\ ret' = IF w.exc = NoExc THEN [n \in {o.name} |-> w.ret] ELSE None

\* the state after a call of a caller that makes its calls in any order
Finish(w, o) ==
    /\ op = NoOp
    /\ Len(w.heap) <= MaxObjects
    /\ Effect(w, o)
    /\ UNCHANGED <<sbp, drv>>

Objects(kind) == { i \in DOMAIN heap : heap[i].kind = kind }

\* no external process is modelled as running
NoProcess ==
    [pc |-> "none", out_left |-> 0, err_left |-> 0, stdout |-> 0, stderr |-> 0,
     exited |-> FALSE, lines |-> 0]

\* the locals of the driver: where it is, the proxies it holds (0: none
\* yet, or None), cfg.perform_redownload_check, whether the checksums were
\* equal, the exception its handler caught, whether the delete command of
\* the old item was dispatched, and how the process ended
\* the text of the last-known-checksum file: the checksum an earlier run
\* recorded, which differs from that of the directories now (line 105), and
\* current_checksum of line 101
OldChecksum == "md5_old"
CurrentChecksum == "md5_new"

Driver(pc, redownload) ==
    [pc |-> pc, perform_redownload_check |-> redownload,
     org |-> 0, coll |-> 0, bak_item |-> None, new_item |-> 0,
     attachments |-> None, redl_attach_obj |-> 0, checksums_equal |-> None,
     caught |-> NoExc, deleted |-> FALSE, exit |-> "running", run |-> <<>>,
     record |-> OldChecksum]

\* no driver is running
NoDriver == Driver("none", FALSE)

\* BitwardenCommander.__init__
NewCommander ==
    /\ session_key = None
    /\ sync_observers = {}
    /\ heap = <<>>
    /\ op = NoOp
    /\ inp = Unread
    /\ pre = [session_key |-> None, sync_observers |-> {}, heap |-> <<>>]
    /\ log = <<>>
    /\ exc = NoExc
    /\ ret = None

\* a commander used by a caller that makes its calls in any order
Init == NewCommander /\ sbp = NoProcess /\ drv = NoDriver

\* the caller goes on after a call: the history of the call is dropped
Return ==
    /\ op # NoOp
    /\ op' = NoOp
    /\ inp' = Unread
    /\ pre' = Now
    /\ log' = <<>>
    /\ exc' = NoExc
    /\ ret' = None
    /\ UNCHANGED <<session_key, sync_observers, heap, sbp, drv>>

DoRegisterSyncObserver ==
    \E i \in DOMAIN heap :
        Finish(Leave(RegisterSyncObserver(Enter(Start, "register_sync_observer"), i)),
               Op("register_sync_observer", <<i>>))

DoUnlock == \E e \in Envs : Finish(Unlock(Start, e), Op("unlock", <<>>))

DoLock == \E e \in Envs : Finish(Lock(Start, e), Op("lock", <<>>))

DoSync == \E e \in Envs : Finish(Sync(Start, e), Op("sync", <<>>))

DoExeBwCommand ==
    \E e \in Envs : \E a \in BwArgs :
        Finish(ExeBwCommand(Start, a, e), Op("exe_bw_command", a))

DoExeBwEncodeCmd ==
    \E e \in Envs : Finish(ExeBwEncodeCmd(Start, e), Op("exe_bw_encode_cmd", <<>>))

DoFindObjectInfo ==
    \E e \in EnvsOf(FindOutputs) : \E s \in SearchTexts :
        Finish(FindObjectInfo(Start, <<"list", "items">>, s, e),
               Op("find_object_info", <<s>>))

DoFindOrganization ==
    \E e \in EnvsOf(ListOutputs) : \E s \in SearchTexts :
        Finish(FindOrganization(Start, s, e), Op("find_organization", <<s>>))

DoFindBareItem ==
    \E e \in EnvsOf(ListOutputs) : \E s \in SearchTexts :
        Finish(FindBareItem(Start, s, e), Op("find_bare_item", <<s>>))

DoOrgFindCollection ==
    \E i \in Objects("organization") : \E e \in EnvsOf(ListOutputs) : \E s \in SearchTexts :
        Finish(OrgFindCollection(Start, i, s, e), Op("find_collection", <<i, s>>))

DoCollFindItem ==
    \E i \in Objects("collection") : \E e \in EnvsOf(ListOutputs) : \E s \in SearchTexts :
        Finish(CollFindItem(Start, i, s, e), Op("find_item", <<i, s>>))

DoGetInfo ==
    \E i \in DOMAIN heap : \E e \in EnvsOf(GetOutputs) :
        Finish(GetInfo(Start, i, e), Op("get_info", <<i>>))

DoGetAttachments ==
    \E i \in Objects("item") : \E e \in EnvsOf(GetOutputs) :
        Finish(GetAttachments(Start, i, e), Op("get_attachments", <<i>>))

DoCreateUploadAttachment ==
    \E i \in Objects("item") : \E e \in Envs : \E p \in InputPaths :
        Finish(CreateUploadAttachment(Start, i, p, e),
               Op("create_upload_attachment", <<i, p>>))

DoUpload ==
    \E a \in Objects("attachment") : \E e \in Envs :
        Finish(Upload(Start, a, e), Op("upload", <<a>>))

DoDownload ==
    \E a \in Objects("attachment") : \E e \in Envs :
        Finish(Download(Start, a, e), Op("download", <<a>>))

DoDeleteFromBw ==
    \E i \in Objects("item") : \E e \in Envs :
        Finish(DeleteFromBw(Start, i, e), Op("delete_from_bw", <<i>>))

DoCreateNoteItemForAttachment ==
    \E c \in Objects("collection") : \E e \in EnvsOf(CreateOutputs) :
        Finish(CreateNoteItemForAttachment(Start, c, e),
               Op("create_note_item_for_attachment", <<c>>))

Next ==
    \/ Return
    \/ DoRegisterSyncObserver
    \/ DoUnlock
    \/ DoLock
    \/ DoSync
    \/ DoExeBwCommand
    \/ DoExeBwEncodeCmd
    \/ DoFindObjectInfo
    \/ DoFindOrganization
    \/ DoFindBareItem
    \/ DoOrgFindCollection
    \/ DoCollFindItem
    \/ DoGetInfo
    \/ DoGetAttachments
    \/ DoCreateUploadAttachment
    \/ DoUpload
    \/ DoDownload
    \/ DoDeleteFromBw
    \/ DoCreateNoteItemForAttachment

Spec == Init /\ [][Next]_vars

----------------------------------------------------------------------------
(* The driver, src/bak.py, from the construction of the commander on       *)
(* (lines 137-236): one action per statement that calls the Bitwarden      *)
(* layer or the file system.  Whether a file operation fails is an input.  *)

TargetOrg == "AUTO"
TargetColl == "AUTO"
RedownloadFname == "redl.zip"

\* line 124: the commander is made; cfg.perform_redownload_check is an input
DrvInit ==
    /\ NewCommander
    /\ sbp = NoProcess
    /\ drv \in { Driver("find_organization", r) : r \in BOOLEAN }

\* except BaseException as e (line 223): the handler runs next
Caught(e) == [drv EXCEPT !.pc = "except", !.caught = e]

\* an entry of a call's log that is a command given to the external process
IsCmd(ev) == ev.ev = "cmd"

\* the driver as d, after the call that ended as w: the commands the call
\* dispatched are added to those of the run (a history of the run)
Ran(d, w) == [d EXCEPT !.run = @ \o SelectSeq(w.log, IsCmd)]

\* a statement of the try block that calls the Bitwarden layer: the call
\* ended as w; the driver goes on as next, or to the handler
DrvCall(w, o, next) ==
    /\ Effect(w, o)
    /\ drv' = Ran(IF w.exc # NoExc THEN Caught(w.exc) ELSE next, w)
    /\ UNCHANGED sbp

\* a statement of the driver that calls no method of the Bitwarden layer
DrvLocal(next) ==
    /\ drv' = next
    /\ UNCHANGED <<session_key, sync_observers, op, inp, pre, log, exc, ret, sbp>>

\* line 140: org = BitwardenOrganization.find_organization(bw_cmdr, cfg.target_org)
DrvFindOrganization ==
    /\ drv.pc = "find_organization"
    /\ \E e \in EnvsOf(ListOutputs) :
           DrvCall(FindOrganization(Start, TargetOrg, e),
                   Op("find_organization", <<TargetOrg>>),
                   [drv EXCEPT !.pc = "find_collection",
                               !.org = FindOrganization(Start, TargetOrg, e).ret])

\* line 144: coll = org.find_collection(cfg.target_coll)
DrvFindCollection ==
    /\ drv.pc = "find_collection"
    /\ \E e \in EnvsOf(ListOutputs) :
           DrvCall(OrgFindCollection(Start, drv.org, TargetColl, e),
                   Op("find_collection", <<drv.org, TargetColl>>),
                   [drv EXCEPT !.pc = "find_item",
                               !.coll = OrgFindCollection(Start, drv.org, TargetColl, e).ret])

\* lines 148-152: bak_item = coll.find_item("AUTO_BAK"), and None when the
\* collection has no such item
FoundBakItem(w) ==
    /\ Effect(w, Op("find_item", <<drv.coll, "AUTO_BAK">>))
    /\ drv' = Ran(IF w.exc = "BitwardenItemNotFoundError"
                      THEN [drv EXCEPT !.pc = "create_note"]
                  ELSE IF w.exc # NoExc THEN Caught(w.exc)
                  ELSE [drv EXCEPT !.pc = "create_note", !.bak_item = Some(w.ret)],
                  w)
    /\ UNCHANGED sbp

DrvFindItem ==
    /\ drv.pc = "find_item"
    /\ \E e \in EnvsOf(ListOutputs) : FoundBakItem(CollFindItem(Start, drv.coll, "AUTO_BAK", e))

\* line 157: new_item = coll.create_note_item_for_attachment(new_item_name, org.bw_id)
DrvCreateNote ==
    /\ drv.pc = "create_note"
    /\ \E e \in EnvsOf(CreateOutputs) :
           DrvCall(CreateNoteItemForAttachment(Start, drv.coll, e),
                   Op("create_note_item_for_attachment", <<drv.coll>>),
                   [drv EXCEPT !.pc = "upload",
                               !.new_item = CreateNoteItemForAttachment(Start, drv.coll, e).ret])

\* lines 161-165: attach_obj = new_item.create_upload_attachment(temp_zipfname),
\* then the redownload check if it is asked for
DrvUpload ==
    /\ drv.pc = "upload"
    /\ \E e \in Envs : \E p \in InputPaths :
           DrvCall(CreateUploadAttachment(Start, drv.new_item, p, e),
                   Op("create_upload_attachment", <<drv.new_item, p>>),
                   [drv EXCEPT !.pc = IF drv.perform_redownload_check THEN "sync"
                                      ELSE "delete_old"])

\* line 173: bw_cmdr.sync()
DrvSync ==
    /\ drv.pc = "sync"
    /\ \E e \in Envs :
           DrvCall(Sync(Start, e), Op("sync", <<>>), [drv EXCEPT !.pc = "get_attachments"])

\* line 177: attachments = new_item.get_attachments()
DrvGetAttachments ==
    /\ drv.pc = "get_attachments"
    /\ \E e \in EnvsOf(GetOutputs) :
           DrvCall(GetAttachments(Start, drv.new_item, e),
                   Op("get_attachments", <<drv.new_item>>),
                   [drv EXCEPT !.pc = "pick",
                               !.attachments = GetAttachments(Start, drv.new_item, e).ret])

\* lines 180-186: len(attachments), redl_attach_obj = attachments[0],
\* redl_attach_obj.output_path = redownload_fname
DrvPick ==
    /\ drv.pc = "pick"
    /\ IF drv.attachments = None
       THEN heap' = heap /\ DrvLocal(Caught("TypeError"))
       ELSE IF Val(drv.attachments) = <<>>
       THEN heap' = heap /\ DrvLocal(Caught("IndexError"))
       ELSE /\ heap' = [heap EXCEPT ![Val(drv.attachments)[1]].output_path =
                                        Some(RedownloadFname)]
            /\ DrvLocal([drv EXCEPT !.pc = "download",
                                    !.redl_attach_obj = Val(drv.attachments)[1]])

\* line 190: redl_attach_obj.download()
DrvDownload ==
    /\ drv.pc = "download"
    /\ \E e \in Envs :
           DrvCall(Download(Start, drv.redl_attach_obj, e),
                   Op("download", <<drv.redl_attach_obj>>), [drv EXCEPT !.pc = "verify"])

\* lines 194-204: the checksum of the redownloaded file is compared with
\* that of the archive, the outcome is logged, the file is removed; reading
\* or removing the file may fail
DrvVerify ==
    /\ drv.pc = "verify"
    /\ heap' = heap
    /\ \/ \E equal \in BOOLEAN :
              DrvLocal([drv EXCEPT !.pc = "delete_old", !.checksums_equal = Some(equal)])
       \/ DrvLocal(Caught("FileNotFoundError"))

\* the deletion that removes the item made in this run
DrvDeleteNew ==
    /\ drv.pc = "delete_old"
    /\ IF drv.bak_item = None
       THEN heap' = heap /\ DrvLocal([drv EXCEPT !.pc = "lock"])
       ELSE \E e \in Envs :
                DrvCall(DeleteFromBw(Start, drv.new_item, e),
                        Op("delete_from_bw", <<drv.new_item>>),
                        [drv EXCEPT !.pc = "lock", !.deleted = TRUE])

\* lines 207-209: if bak_item is not None: bak_item.delete_from_bw()
DrvDeleteOld ==
    /\ drv.pc = "delete_old"
    /\ IF drv.bak_item = None
       THEN heap' = heap /\ DrvLocal([drv EXCEPT !.pc = "lock"])
       ELSE \E e \in Envs :
                DrvCall(DeleteFromBw(Start, Val(drv.bak_item), e),
                        Op("delete_from_bw", <<Val(drv.bak_item)>>),
                        [drv EXCEPT !.pc = "lock", !.deleted = TRUE])

\* line 212: bw_cmdr.lock()
DrvLock ==
    /\ drv.pc = "lock"
    /\ \E e \in Envs :
           DrvCall(Lock(Start, e), Op("lock", <<>>), [drv EXCEPT !.pc = "finish"])

\* lines 214-222: the archive is removed and the checksum file written,
\* either of which may fail; then the script ends.  open(file, 'w') empties
\* the file, and the text is written when the with block is left: when
\* removing or opening fails the file is as it was, and when the writing
\* fails it is empty
DrvFinish ==
    /\ drv.pc = "finish"
    /\ heap' = heap
    /\ \/ DrvLocal([drv EXCEPT !.pc = "exit", !.exit = "normal",
                                !.record = CurrentChecksum])
       \/ DrvLocal(Caught("OSError"))
       \/ DrvLocal([Caught("OSError") EXCEPT !.record = ""])

\* the handler that ends the script without relocking
DrvExceptNoLock ==
    /\ drv.pc = "except"
    /\ heap' = heap
    /\ DrvLocal([drv EXCEPT !.pc = "exit", !.exit = "raised"])

\* lines 223-236: the handler: bw_cmdr.lock(); when that raises, raise e,
\* and when it does not, the script ends
DrvExcept ==
    /\ drv.pc = "except"
    /\ \E e \in Envs :
           /\ Effect(Lock(Start, e), Op("lock", <<>>))
           /\ drv' = Ran([drv EXCEPT !.pc = "exit",
                                     !.exit = IF Lock(Start, e).exc # NoExc THEN "raised"
                                              ELSE "normal"],
                         Lock(Start, e))
           /\ UNCHANGED sbp

DrvNext ==
    \/ DrvFindOrganization
    \/ DrvFindCollection
    \/ DrvFindItem
    \/ DrvCreateNote
    \/ DrvUpload
    \/ DrvSync
    \/ DrvGetAttachments
    \/ DrvPick
    \/ DrvDownload
    \/ DrvVerify
    \/ DrvDeleteOld
    \/ DrvLock
    \/ DrvFinish
    \/ DrvExcept

DrvSpec == DrvInit /\ [][DrvNext]_vars

----------------------------------------------------------------------------
(* RealSubprocessCommander.exe_wait_sbp_command: the external process, its *)
(* two pipes, and the caller, which waits for the process to end and only  *)
(* then reads its standard output.  Output is counted in blocks; a pipe    *)
(* holds PipeCapacity blocks and a write to a full pipe blocks the writer. *)

\* what the process has to print on each stream is an input
SbpInit ==
    /\ NewCommander
    /\ drv = NoDriver
    /\ sbp \in { [pc |-> "popen", out_left |-> o, err_left |-> e, stdout |-> 0,
                  stderr |-> 0, exited |-> FALSE, lines |-> 0] :
                     o \in 0..MaxOutput, e \in 0..MaxOutput }

SbpStep(next) ==
    /\ sbp' = next
    /\ UNCHANGED <<session_key, sync_observers, heap, op, inp, pre, log, exc, ret, drv>>

\* proc = sbp.Popen(command, stdout=sbp.PIPE, stderr=sbp.PIPE, text=True)
Popen ==
    /\ sbp.pc = "popen"
    /\ SbpStep([sbp EXCEPT !.pc = "wait"])

ProcessRuns == sbp.pc \in {"wait", "read"} /\ ~sbp.exited

\* the process writes a block to its standard output, if the pipe has room
WriteStdout ==
    /\ ProcessRuns /\ sbp.out_left > 0 /\ sbp.stdout < PipeCapacity
    /\ SbpStep([sbp EXCEPT !.out_left = @ - 1, !.stdout = @ + 1])

\* the process writes a block to its standard error, if the pipe has room
WriteStderr ==
    /\ ProcessRuns /\ sbp.err_left > 0 /\ sbp.stderr < PipeCapacity
    /\ SbpStep([sbp EXCEPT !.err_left = @ - 1, !.stderr = @ + 1])

\* the process ends when it has written everything
ProcessExits ==
    /\ ProcessRuns /\ sbp.out_left = 0 /\ sbp.err_left = 0
    /\ SbpStep([sbp EXCEPT !.exited = TRUE])

\* proc.wait() returns when the process has ended
ProcWait ==
    /\ sbp.pc = "wait" /\ sbp.exited
    /\ SbpStep([sbp EXCEPT !.pc = "read"])

\* list(proc.stdout): one more line
ReadLine ==
    /\ sbp.pc = "read" /\ sbp.stdout > 0
    /\ SbpStep([sbp EXCEPT !.stdout = @ - 1, !.lines = @ + 1])

\* list(proc.stdout): end of file, the list is returned
ReadEof ==
    /\ sbp.pc = "read" /\ sbp.stdout = 0 /\ sbp.exited
    /\ SbpStep([sbp EXCEPT !.pc = "returned"])

SbpNext ==
    \/ Popen
    \/ WriteStdout
    \/ WriteStderr
    \/ ProcessExits
    \/ ProcWait
    \/ ReadLine
    \/ ReadEof

\* a process or a caller that can take a step takes one in the end
SbpSpec == SbpInit /\ [][SbpNext]_vars /\ WF_vars(SbpNext)

----------------------------------------------------------------------------
(* What the properties below read off the history of the last call.        *)

IsCallOf(ev, name) == ev.ev = "call" /\ ev.name = name

\* the commands the call dispatched, in order
Commands == LET c == SelectSeq(log, IsCmd) IN [k \in 1..Len(c) |-> c[k].argv]

\* how often the call called the method, itself or through its callees
NumCalls(name) == Cardinality({ k \in 1..Len(log) : IsCallOf(log[k], name) })

\* the call notified no observer
NoNotify == NumCalls("perform_sync_notify") = 0

Locked == pre.session_key = None
Returned == exc = NoExc

\* the value the call returned
Result == ret[op.name]

\* the first output line of the unlock command, when the call read one
ReadUnlockLine == inp.unlock_output # None /\ Len(Val(inp.unlock_output)) > 0
UnlockLine == Val(inp.unlock_output)[1]

UpperCase == "ABCDEFGHIJKLMNOPQRSTUVWXYZ"
LowerCase == "abcdefghijklmnopqrstuvwxyz"

LowerChar(c) ==
    IF \E k \in 1..Len(UpperCase) : SubSeq(UpperCase, k, k) = c
    THEN LET k == CHOOSE k \in 1..Len(UpperCase) : SubSeq(UpperCase, k, k) = c
         IN  SubSeq(LowerCase, k, k)
    ELSE c

RECURSIVE ToLower(_)
ToLower(s) ==
    IF Len(s) = 0 THEN s
    ELSE LowerChar(SubSeq(s, 1, 1)) \o ToLower(SubSeq(s, 2, Len(s)))

\* an invalid-password message as the specification describes it: the line
\* matches "invalid ... password" whatever the casing of its letters
IsInvalidPasswordMessage(line) ==
    \E i \in 1..Len(line) : \E j \in 1..Len(line) :
        /\ OccursAt(ToLower(line), "invalid", i)
        /\ j >= i + Len("invalid")
        /\ OccursAt(ToLower(line), "password", j)

\* the command exe_bw_command makes of bw_args under the key
WithSession(bw_args, key) == <<BwExe>> \o bw_args \o <<"--session", key>>

----------------------------------------------------------------------------
(* The properties.                                                         *)

\* a dispatched command ends with the flag and the key of that moment
CarriesSession(ev) ==
    /\ ev.key # None
    /\ Len(ev.argv) >= 3
    /\ ev.argv[Len(ev.argv) - 1] = "--session"
    /\ ev.argv[Len(ev.argv)] = Val(ev.key)

\* C1: there is at most one session key, and every dispatched command other
\* than unlock and encode ends with "--session" and the session key as it
\* is, and is present, at the moment of the dispatch.
C1_EveryCommandCarriesTheSession ==
    /\ Len(session_key) <= 1
    /\ \A k \in 1..Len(log) :
           (IsCmd(log[k]) /\ log[k].name \notin {"unlock", "encode"})
               => CarriesSession(log[k])

\* a command was asked for with no key, and dispatched after the unlock
C1_Witness ==
    /\ op.name = "exe_bw_command" /\ Locked /\ Returned
    /\ \E k \in 1..Len(log) : IsCmd(log[k]) /\ log[k].name = "test_cmd"

\* C2: unlock() called LOCKED with the password file there and a first
\* output line that is no invalid-password message makes that line the
\* session key and then synchronizes: the commands dispatched are the unlock
\* command, without a session flag, and then the sync command with the new key.
C2_UnlockSetsKeyThenSyncs ==
    (/\ op.name = "unlock" /\ Locked
     /\ inp.pw_file_exists = Some(TRUE)
     /\ ReadUnlockLine /\ ~IsInvalidPasswordMessage(UnlockLine))
        => /\ Returned
           /\ session_key = Some(UnlockLine)
           /\ NumCalls("sync") = 1
           /\ Commands = <<UnlockCommand, WithSession(<<"sync">>, UnlockLine)>>

C2_Witness ==
    /\ op.name = "unlock" /\ Locked /\ Returned
    /\ session_key = Some("key1")
    /\ Len(Commands) = 2

\* C3: with the password file there and an invalid-password message as the
\* first output line, unlock() raises InvalidMasterPasswordError, the key
\* stays absent, and the unlock command is the only command dispatched: no
\* sync, no notification.
C3_InvalidPasswordStopsUnlock ==
    (/\ op.name = "unlock" /\ Locked
     /\ inp.pw_file_exists = Some(TRUE)
     /\ ReadUnlockLine /\ IsInvalidPasswordMessage(UnlockLine))
        => /\ exc = "InvalidMasterPasswordError"
           /\ session_key = None
           /\ Commands = <<UnlockCommand>>
           /\ NoNotify

\* C4: the invalid-password check does not depend on the casing: whenever
\* the first output line of the unlock command matches "invalid ... password"
\* in any casing, the call raises InvalidMasterPasswordError and the line
\* does not become the session key.
C4_InvalidPasswordAnyCasing ==
    (ReadUnlockLine /\ IsInvalidPasswordMessage(UnlockLine))
        => /\ exc = "InvalidMasterPasswordError"
           /\ session_key # Some(UnlockLine)

\* C5: unlock() called LOCKED with no password file raises FileNotFoundError,
\* dispatches no command, notifies no observer and leaves the key absent.
C5_MissingPasswordFile ==
    (op.name = "unlock" /\ Locked /\ inp.pw_file_exists = Some(FALSE))
        => /\ exc = "FileNotFoundError"
           /\ Commands = <<>>
           /\ NoNotify
           /\ session_key = None

C5_Witness ==
    /\ op.name = "unlock" /\ Locked /\ inp.pw_file_exists = Some(FALSE)
    /\ exc = "FileNotFoundError"

\* C6: unlock() with a key present returns without dispatching a command or
\* notifying an observer and leaves the key as it was; and an unlock() that
\* returned from LOCKED dispatched the unlock command once and left a key, so
\* the unlock() after it is of the first kind.
C6_UnlockIdempotent ==
    op.name = "unlock" =>
        /\ ~Locked => /\ Returned
                      /\ Commands = <<>>
                      /\ NoNotify
                      /\ session_key = pre.session_key
                      /\ heap = pre.heap
        /\ (Locked /\ Returned)
               => /\ session_key # None
                  /\ Cardinality({ k \in 1..Len(Commands) :
                                     Commands[k] = UnlockCommand }) = 1

\* unlock() was called with a key present and proxies with cached content
C6_Witness ==
    /\ op.name = "unlock" /\ ~Locked /\ Returned
    /\ \E i \in DOMAIN heap : heap[i].info_cache # None

\* C7: after lock() returns the key is absent; called with a key present it
\* returns, and the lock command with that key is the one command dispatched.
C7_LockDiscardsKey ==
    op.name = "lock" =>
        /\ Returned => session_key = None
        /\ ~Locked => /\ Returned
                      /\ Commands = <<WithSession(<<"lock">>, Val(pre.session_key))>>

C7_Witness ==
    /\ op.name = "lock" /\ ~Locked /\ Returned /\ session_key = None

\* C8: in sync(), observers are notified only after the sync command was
\* dispatched: every notification of at least one observer comes after a
\* dispatch of the sync command in the same call.
C8_NotifyAfterRemoteSync ==
    op.name = "sync" =>
        \A k \in 1..Len(log) :
            (IsCallOf(log[k], "perform_sync_notify") /\ log[k].obs # {})
                => \E j \in 1..(k - 1) : IsCmd(log[j]) /\ log[j].name = "sync"

\* a proxy as its constructor left it, as far as its caches go
NeverFetched(o) ==
    /\ o.info_cache = None
    /\ o.lookup_cache = EmptyDict
    /\ o.attachments_cache = None
    /\ o.attachments_have_been_downloaded = FALSE

\* C9: after a sync() that returns, every registered observer, and so every
\* proxy, is in its never-fetched state: no snapshot, an empty lookup cache,
\* no attachment list and the fetched flag cleared.
C9_SyncClearsEveryObserver ==
    (op.name = "sync" /\ Returned)
        => /\ sync_observers = DOMAIN heap
           /\ \A i \in sync_observers : NeverFetched(heap[i])

\* sync() returned where a container had a snapshot and a cached child
C9_Witness ==
    /\ op.name = "sync" /\ Returned
    /\ \E i \in DOMAIN pre.heap :
           /\ pre.heap[i].info_cache # None
           /\ pre.heap[i].lookup_cache # EmptyDict

\* the call is exe_bw_command made with no key
ExecuteLocked == op.name = "exe_bw_command" /\ Locked

\* perform_sync_notify was called by the exe_bw_command the caller called
DirectNotify(ev) ==
    IsCallOf(ev, "perform_sync_notify") /\ ev.stack = <<"exe_bw_command">>

\* the entry was logged while unlock() was running
UnderUnlock(ev) == \E j \in 1..Len(ev.stack) : ev.stack[j] = "unlock"

\* unlock() is called once, and before any command the call dispatches
\* through exe_bw_command
UnlocksOnceFirst ==
    /\ NumCalls("unlock") = 1
    /\ \A k \in 1..Len(log) :
           (IsCmd(log[k]) /\ log[k].name # "unlock")
               => \E j \in 1..(k - 1) : IsCallOf(log[j], "unlock")

\* C10: for every command, exe_bw_command with no key calls unlock() once
\* before dispatching and never calls perform_sync_notify() itself; every
\* notification is made under unlock().
C10_UnlockOnceNoDirectNotify ==
    ExecuteLocked =>
        /\ UnlocksOnceFirst
        /\ \A k \in 1..Len(log) :
               IsCallOf(log[k], "perform_sync_notify")
                   => (~DirectNotify(log[k]) /\ UnderUnlock(log[k]))

\* the argument vectors that make a synchronization command
SyncCommands == { <<"sync">>, <<" sync">> }

\* the call is exe_bw_command made with a key
ExecuteUnlocked == op.name = "exe_bw_command" /\ ~Locked

\* the proxies the observers registered before the call are, cleared
ClearedHeap ==
    [i \in DOMAIN pre.heap |->
        [pre.heap[i] EXCEPT !.info_cache = None, !.lookup_cache = EmptyDict,
                            !.attachments_cache = None,
                            !.attachments_have_been_downloaded = FALSE]]

\* C11: exe_bw_command of a sync command with a key present returns having
\* notified once, and every registered observer in that notification, without
\* calling unlock(), and having dispatched one command: the sync command with
\* the key.
C11_SyncCommandNotifiesOnce ==
    (ExecuteUnlocked /\ op.args \in SyncCommands)
        => /\ Returned
           /\ NumCalls("unlock") = 0
           /\ NumCalls("perform_sync_notify") = 1
           /\ \A k \in 1..Len(log) :
                  IsCallOf(log[k], "perform_sync_notify")
                      => log[k].obs = pre.sync_observers
           /\ heap = ClearedHeap
           /\ Commands = <<WithSession(op.args, Val(pre.session_key))>>

\* a sync command was executed with a key and a proxy holding a snapshot
C11_Witness ==
    /\ ExecuteUnlocked /\ op.args = <<"sync">> /\ Returned
    /\ \E i \in pre.sync_observers : pre.heap[i].info_cache # None

\* C12: exe_bw_command of a command that is no sync command, with a key
\* present, returns having dispatched one command, the arguments followed by
\* the session flag and the key, without calling unlock() or notifying, and
\* leaves the key, the observers and every proxy as they were.
C12_OtherCommandLeavesCaches ==
    (ExecuteUnlocked /\ op.args \notin SyncCommands)
        => /\ Returned
           /\ Commands = <<WithSession(op.args, Val(pre.session_key))>>
           /\ NumCalls("unlock") = 0
           /\ NoNotify
           /\ session_key = pre.session_key
           /\ sync_observers = pre.sync_observers
           /\ heap = pre.heap

\* a command that is no sync command was executed with a key and a proxy
\* holding a snapshot
C12_Witness ==
    /\ ExecuteUnlocked /\ op.args = <<"test_cmd">> /\ Returned
    /\ \E i \in pre.sync_observers : pre.heap[i].info_cache # None

\* C13: registering is an idempotent add: the observer set holds every
\* object ever registered (every proxy registers when it is constructed)
\* and as many elements as there are such objects, two proxies of one
\* identifier being two observers; registering an object again returns and
\* leaves the set as it was.
C13_RegisterIsIdempotentAdd ==
    /\ sync_observers = DOMAIN heap
    /\ Cardinality(sync_observers) = Len(heap)
    /\ op.name = "register_sync_observer"
           => /\ Returned
              /\ op.args[1] \in sync_observers
              /\ sync_observers = pre.sync_observers
              /\ heap = pre.heap

\* an observer was registered again where two proxies have one identifier
C13_Witness ==
    /\ op.name = "register_sync_observer"
    /\ Len(heap) = 2
    /\ Hash(heap[1]) = Hash(heap[2])

\* the call is find_object_info and read the output of its command
FindReadOutput == op.name = "find_object_info" /\ inp.cmd_output # None

\* the first line of that output, when there is one
HasFindLine == FindReadOutput /\ Len(Val(inp.cmd_output)) > 0
FindLine == Val(inp.cmd_output)[1]

\* the line is plain text: its first character is neither '[' nor '{'
IsPlainText(line) == Len(line) = 0 \/ SubSeq(line, 1, 1) \notin {"[", "{"}

\* the array the line stands for, when it is one of the arrays of results
ResultArrays ==
    {JArrayEmpty, JArrayOne, JArrayLastExact, JArrayTwoExact, JArrayNoExact, JArrayThree}
FoundArray == JsonLoads(FindLine)

\* where in the array the name is the search text
ExactMatches == { k \in 1..Len(FoundArray) : FoundArray[k].name = op.args[1] }

\* C14: find_object_info raises BitwardenItemNotFoundError, and returns no
\* record, both when the first output line is plain text and when it is an
\* empty array.
C14_NotFoundRaises ==
    (HasFindLine /\ (IsPlainText(FindLine) \/ FindLine = JArrayEmpty))
        => /\ exc = "BitwardenItemNotFoundError"
           /\ ret = None

\* an empty array was read, with no key at the call (a plain text is read
\* in the same way)
C14_Witness ==
    /\ HasFindLine /\ FindLine = JArrayEmpty /\ Locked
    /\ exc = "BitwardenItemNotFoundError"

\* C15: for a non-empty array of results, find_object_info returns the one
\* element whose name is the search text when there is exactly one, wherever
\* it stands, and the first element when there is none.
C15_ExactMatchElseFirst ==
    (HasFindLine /\ FindLine \in ResultArrays /\ Len(FoundArray) > 0)
        => /\ Cardinality(ExactMatches) = 1
                  => /\ Returned
                     /\ \E k \in ExactMatches : Result = FoundArray[k]
           /\ ExactMatches = {}
                  => /\ Returned
                     /\ Result = FoundArray[1]

\* the one exact match stood after another element and was returned
C15_Witness ==
    /\ HasFindLine /\ FindLine \in {JArrayLastExact, JArrayThree}
    /\ ExactMatches = {2} /\ Result = FoundArray[2]

\* C16: when several elements have the search text as their name,
\* find_object_info returns the first of them in the order of the array.
C16_FirstExactMatchWins ==
    (HasFindLine /\ FindLine \in ResultArrays /\ Cardinality(ExactMatches) > 1)
        => /\ Returned
           /\ \E k \in ExactMatches :
                  /\ \A j \in ExactMatches : k <= j
                  /\ Result = FoundArray[k]

\* the `get <kind> <id>` commands among those the call dispatched
FetchCommands == { k \in 1..Len(Commands) : Commands[k][2] = "get" }

\* C17: get_info() twice with no synchronization in between returns the
\* same cached mapping and fetches at most once.  Call by call: a get_info()
\* that returns leaves what it returned as the snapshot and dispatched at
\* most one fetch command; with a snapshot already there it returns that
\* snapshot and dispatches nothing; and a snapshot is only ever dropped or
\* replaced by a call that notified the observers.
C17_GetInfoCaches ==
    /\ (op.name = "get_info" /\ Returned)
           => /\ heap[op.args[1]].info_cache = Some(Result)
              /\ Cardinality(FetchCommands) <= 1
    /\ (op.name = "get_info" /\ pre.heap[op.args[1]].info_cache # None)
           => /\ Returned
              /\ Result = Val(pre.heap[op.args[1]].info_cache)
              /\ Commands = <<>>
              /\ heap = pre.heap
    /\ \A i \in DOMAIN pre.heap :
           (pre.heap[i].info_cache # None /\ NoNotify)
               => heap[i].info_cache = pre.heap[i].info_cache

\* get_info() was called on a proxy whose snapshot get_info() had fetched
C17_Witness ==
    /\ op.name = "get_info" /\ Returned /\ Commands = <<>>
    /\ pre.heap[op.args[1]].info_cache = Some(JsonLoads(JObjectAttach))

\* the call is Organization.find_collection or Collection.find_item
IsLookup == op.name \in {"find_collection", "find_item"}
LookupParent == op.args[1]
LookupText == op.args[2]
LookupHit == LookupText \in DOMAIN pre.heap[LookupParent].lookup_cache

\* C18: find_collection and find_item consult a cache keyed by the literal
\* search string.  A lookup of a string that is in the cache returns the
\* cached proxy, dispatches no command and changes nothing; a lookup of a
\* string that is not in it and returns, returns a proxy that did not exist
\* before and enters it under that string; a lookup that raises adds no
\* entry; entries are only dropped by a call that notified the observers;
\* and two different strings of one cache never share a proxy, also when
\* they resolved to the same remote identifier.
C18_LookupCacheByString ==
    /\ (IsLookup /\ LookupHit)
           => /\ Returned
              /\ Result = pre.heap[LookupParent].lookup_cache[LookupText]
              /\ Commands = <<>>
              /\ heap = pre.heap
    /\ (IsLookup /\ ~LookupHit /\ Returned)
           => /\ Result \notin DOMAIN pre.heap
              /\ Result \in DOMAIN heap
              /\ LookupText \in DOMAIN heap[LookupParent].lookup_cache
              /\ heap[LookupParent].lookup_cache[LookupText] = Result
    /\ (IsLookup /\ ~Returned)
           => DOMAIN heap[LookupParent].lookup_cache
                  \subseteq DOMAIN pre.heap[LookupParent].lookup_cache
    /\ \A i \in DOMAIN pre.heap : \A s \in DOMAIN pre.heap[i].lookup_cache :
           NoNotify => /\ s \in DOMAIN heap[i].lookup_cache
                       /\ heap[i].lookup_cache[s] = pre.heap[i].lookup_cache[s]
    /\ \A i \in DOMAIN heap : \A s, t \in DOMAIN heap[i].lookup_cache :
           s # t => heap[i].lookup_cache[s] # heap[i].lookup_cache[t]

\* a repeated lookup was answered from a cache that holds two strings which
\* resolved to the same remote identifier, as two proxies
C18_Witness ==
    /\ IsLookup /\ LookupHit /\ Returned /\ Commands = <<>>
    /\ DOMAIN heap[LookupParent].lookup_cache = {"AUTO_BAK", "AUTO"}
    /\ heap[heap[LookupParent].lookup_cache["AUTO_BAK"]].bw_id
           = heap[heap[LookupParent].lookup_cache["AUTO"]].bw_id
    /\ heap[LookupParent].lookup_cache["AUTO_BAK"] # heap[LookupParent].lookup_cache["AUTO"]

\* C19: in every reachable state, an item whose fetched flag is set has an
\* attachment list (possibly empty), never an absent one.
C19_FlagImpliesList ==
    \A i \in Objects("item") :
        heap[i].attachments_have_been_downloaded => heap[i].attachments_cache # None

\* the entries of the attachments field of an item's snapshot
SnapshotEntries(i) ==
    IF heap[i].info_cache # None /\ "attachments" \in DOMAIN Val(heap[i].info_cache)
    THEN Val(heap[i].info_cache).attachments ELSE <<>>

\* C20: get_attachments() called with the fetched flag clear and returning,
\* with or without a session key and with or without a snapshot, returns a
\* list of one attachment proxy per entry of the snapshot's attachments field
\* (an empty list when there is none), leaves the flag set and that list
\* cached; called with the flag set it returns the cached list and dispatches
\* no command.
C20_GetAttachmentsResult ==
    /\ (op.name = "get_attachments" /\ Returned
           /\ ~pre.heap[op.args[1]].attachments_have_been_downloaded)
           => /\ Result # None
              /\ Len(Val(Result)) = Len(SnapshotEntries(op.args[1]))
              /\ \A k \in 1..Len(Val(Result)) :
                     /\ heap[Val(Result)[k]].kind = "attachment"
                     /\ heap[Val(Result)[k]].bw_id = SnapshotEntries(op.args[1])[k].id
              /\ heap[op.args[1]].attachments_have_been_downloaded
              /\ heap[op.args[1]].attachments_cache = Result
    /\ (op.name = "get_attachments"
           /\ pre.heap[op.args[1]].attachments_have_been_downloaded)
           => /\ Returned
              /\ Result = pre.heap[op.args[1]].attachments_cache
              /\ Commands = <<>>

\* the create-attachment commands the call dispatched for item i
CreateCommands(i) ==
    { k \in 1..Len(Commands) :
          /\ Commands[k][2] = "create" /\ Commands[k][3] = "attachment"
          /\ Commands[k][6] = "--itemid" /\ Commands[k][7] = heap[i].bw_id }

\* the proxies of an attachment list (none when the list is absent)
Members(list) == IF list = None THEN {} ELSE { Val(list)[k] : k \in 1..Len(Val(list)) }

\* C21: create_upload_attachment(path), with or without a session key, leaves
\* the item's fetched flag as it was, and when it returns, the placeholder it
\* returns is in the item's attachment list and exactly one create-attachment
\* command naming the item's identifier was dispatched.
C21_CreateUploadKeepsFlag ==
    op.name = "create_upload_attachment"
        => /\ heap[op.args[1]].attachments_have_been_downloaded
                  = pre.heap[op.args[1]].attachments_have_been_downloaded
           /\ Returned
                  => /\ Result \in Members(heap[op.args[1]].attachments_cache)
                     /\ Cardinality(CreateCommands(op.args[1])) = 1

\* C22: upload() of an attachment with no source path raises ValueError
\* before anything else: no command, no unlock, no notification, and the
\* session key and every proxy are as before.
C22_UploadNeedsSourcePath ==
    (op.name = "upload" /\ pre.heap[op.args[1]].input_path = None)
        => /\ exc = "ValueError"
           /\ Commands = <<>>
           /\ NumCalls("unlock") = 0
           /\ NoNotify
           /\ session_key = pre.session_key
           /\ sync_observers = pre.sync_observers
           /\ heap = pre.heap

\* upload() was called without a session key on an attachment that
\* get_attachments made, which has no source path
C22_Witness ==
    /\ op.name = "upload" /\ pre.heap[op.args[1]].input_path = None
    /\ Locked /\ exc = "ValueError"

\* the notifications of the call, as log entries
Notifications == { k \in 1..Len(log) : IsCallOf(log[k], "perform_sync_notify") }

\* the placeholder attachments, which share the identifier NO_ID
Placeholders == { i \in DOMAIN heap : heap[i].bw_id = "NO_ID" }

CommandsNamed(name) == { k \in 1..Len(log) : IsCmd(log[k]) /\ log[k].name = name }

\* C27: a sync() that returns has dispatched exactly one sync command and
\* notified the observers exactly once, also when it was called with no
\* session key and unlocked first.
C27_SyncOnceNotifyOnce ==
    (op.name = "sync" /\ Returned)
        => /\ Cardinality(CommandsNamed("sync")) = 1
           /\ Cardinality(Notifications) = 1

\* C28: lock() called with no session key dispatches the lock command only:
\* no unlock command, no sync command, no notification, and it raises
\* neither InvalidMasterPasswordError nor FileNotFoundError.
C28_LockWhenLockedOnlyLocks ==
    (op.name = "lock" /\ Locked)
        => /\ CommandsNamed("unlock") = {}
           /\ CommandsNamed("sync") = {}
           /\ Cardinality(CommandsNamed("lock")) = 1
           /\ Notifications = {}
           /\ exc \notin {"InvalidMasterPasswordError", "FileNotFoundError"}

\* the unlock failures: the message of the tool, or no password file
UnlockFailures == {"InvalidMasterPasswordError", "FileNotFoundError"}

\* C30: exe_bw_command ends after a bounded number of commands.  unlock() is
\* never entered while unlock() is running, in any call; one exe_bw_command
\* calls unlock() at most once and dispatches at most three commands (unlock,
\* the sync of unlock, the command asked for); and when unlock() fails, the
\* unlock command is the only command that was dispatched and the session key
\* is still absent.
C30_ExecuteIsBounded ==
    /\ \A k \in 1..Len(log) : IsCallOf(log[k], "unlock") => ~UnderUnlock(log[k])
    /\ op.name = "exe_bw_command"
           => /\ NumCalls("unlock") <= 1
              /\ Len(Commands) <= 3
              /\ exc \in UnlockFailures
                     => /\ Locked
                        /\ session_key = None
                        /\ \A k \in 1..Len(Commands) : Commands[k] = UnlockCommand

\* exe_bw_command was called with no session key and unlock() failed on the
\* message of the tool
C30_Witness ==
    /\ ExecuteLocked /\ exc = "InvalidMasterPasswordError"
    /\ Commands = <<UnlockCommand>>

\* C29: exe_wait_sbp_command returns for every process that ends once its
\* output is consumed, whatever the amount of output: in every run the call
\* returns in the end.
C29_RunReturns == <>(sbp.pc = "returned")

\* the driver has ended
Exited == drv.pc = "exit"

\* C23: in every run of the driver, a lock is attempted before the process
\* exits, on success and after any failure: when the driver has ended, the
\* last call it made to the commander is lock() and no session key is left;
\* a lock() that returned dispatched the lock command as its last command,
\* after any unlock, and a lock() that raised was called with no key and got
\* none.
C23_LockBeforeExit ==
    Exited
        => /\ op.name = "lock"
           /\ session_key = None
           /\ Returned => /\ IsCmd(log[Len(log)])
                          /\ log[Len(log)].name = "lock"
           /\ ~Returned => Locked

\* the driver ended after a failure that came when the session was
\* unlocked and the new item made, and its handler locked the vault
C23_Witness ==
    /\ Exited /\ drv.caught # NoExc /\ drv.new_item # 0
    /\ op.name = "lock" /\ Returned /\ ~Locked

\* C24: a failure caught by the driver's handler is raised again after the
\* relock in every case, also when the relock succeeds: a run in which the
\* handler ran never ends normally.
C24_FailureIsReraised ==
    (Exited /\ drv.caught # NoExc) => drv.exit = "raised"

\* C25: with the redownload check on, the old backup item is deleted only
\* when the checksum of the redownloaded archive equals that of the
\* original: the delete command is never dispatched after a mismatch.
C25_DeleteOnlyAfterMatch ==
    (drv.perform_redownload_check /\ drv.deleted) => drv.checksums_equal = Some(TRUE)

\* the places in the run's commands of the delete commands, of the commands
\* that create an item, of those that attach a file to the item of the given
\* identifier, and of the searches for an item
RunDeletes == { k \in 1..Len(drv.run) : drv.run[k].name = "delete" }
RunCreatesItem ==
    { k \in 1..Len(drv.run) : drv.run[k].name = "create" /\ drv.run[k].argv[3] = "item" }
RunAttaches(id) ==
    { k \in 1..Len(drv.run) :
          /\ drv.run[k].name = "create" /\ drv.run[k].argv[3] = "attachment"
          /\ drv.run[k].argv[7] = id }
RunListsItems ==
    { k \in 1..Len(drv.run) : drv.run[k].name = "list" /\ drv.run[k].argv[3] = "items" }

\* C31: in every run of the driver, a delete command is dispatched only
\* after the new note item was made and the create-attachment command for it
\* was dispatched, in that order; the item it names is the one that find_item
\* resolved before the new item was made, with a search dispatched before
\* the create-item command, and never the new item.
C31_DeleteOldAfterUpload ==
    \A k \in RunDeletes :
        /\ drv.new_item # 0 /\ drv.bak_item # None
        /\ \E i \in RunCreatesItem : \E j \in RunAttaches(heap[drv.new_item].bw_id) :
               i < j /\ j < k
        /\ drv.run[k].argv[3] = "item"
        /\ drv.run[k].argv[4] = heap[Val(drv.bak_item)].bw_id
        /\ drv.run[k].argv[4] # heap[drv.new_item].bw_id
        /\ Val(drv.bak_item) < drv.new_item
        /\ \E f \in RunListsItems : \A i \in RunCreatesItem : f < i

\* the driver deleted the old item after the redownload check, which
\* notified the proxies, and went on
C31_Witness ==
    /\ RunDeletes # {} /\ drv.deleted /\ drv.perform_redownload_check
    /\ drv.pc = "lock"

\* the run failed: an exception reached the handler of line 223
RunFailed == drv.caught # NoExc

\* C32: the driver writes the new checksum to the last-known-checksum file
\* only at the end of a run in which nothing raised, after the upload, the
\* redownload if asked for, the deletion of the old item and the final lock;
\* on every failing run the file is left as it was.
C32_RecordOnlyOnSuccess ==
    /\ drv.record = CurrentChecksum
           => /\ Exited /\ ~RunFailed /\ drv.exit = "normal"
              /\ RunAttaches(heap[drv.new_item].bw_id) # {}
              /\ drv.perform_redownload_check => drv.checksums_equal # None
              /\ drv.bak_item # None => drv.deleted
              /\ drv.run[Len(drv.run)].name = "lock"
    /\ RunFailed => drv.record = OldChecksum

====
